---- MODULE Spec2Model ----
(***************************************************************************)
(* A model of the doodle paper: the touch state machine of Paper, its      *)
(* undo/redo history, the viewport (pan, zoom, bounds correction), the     *)
(* AnimationController and the stroke capture of PathBrush.                *)
(*                                                                         *)
(* Numbers.  The program computes with JavaScript numbers.  The model      *)
(* keeps lengths and coordinates in whole pixels, scales in thousandths    *)
(* (1000 is the scale 1.0) and times in milliseconds; a quotient is        *)
(* rounded to the nearest unit (RDiv) and a square root is rounded down    *)
(* (ISqrt).  Comparisons against the program's thresholds are made on the  *)
(* exact integer quantities wherever the threshold allows it.              *)
(*                                                                         *)
(* Objects.  A stroke (BrushHistory) is an object of the heap `strokes`,   *)
(* named by a positive number; the stacks hold such names, so that two     *)
(* holders of the same stroke see each other's writes.  A stroke's         *)
(* `configs` field names the configs object it points to: the one a stroke *)
(* holds (`own`), or the configs object of a brush.                        *)
(***************************************************************************)
EXTENDS Integers, Sequences, FiniteSets, TLC

VARIABLES
    root,            \* the container: [offsetWidth, offsetHeight]
    width,           \* Paper.width: the image's width
    height,          \* Paper.height: the image's height
    maxScale,        \* Paper.maxScale, in thousandths
    position,        \* Paper.position
    lastFocus,       \* Paper.lastFocus
    lastLength,      \* Paper.lastLength
    lastScaleFocus,  \* Paper.lastScaleFocus
    workMode,        \* Paper.workMode: 0 idle, 1 drawing, 2 transforming
    brush,           \* Paper.brush: the name of the current brush object
    configs,         \* Brush.configs of each brush object
    brushHistory,    \* PathBrush._history of each brush object: a stroke or NoStroke
    strokes,         \* the heap of BrushHistory objects
    histories,       \* Paper.histories: the committed stack
    redoHistories,   \* Paper.redoHistories: the redo stack
    raster,          \* the canvas: the segments painted since it was last cleared
    holders,         \* the pending frame callbacks, each with its AnimationHolder
    fingers,         \* the host's active touches on the root (targetTouches)
    exported,        \* the record last returned by exportHistory, held by the caller
    exportedWas,     \* what that record held the last time the caller looked at it
    moves,           \* how many touch moves, fitCenter calls and resizes there were
                     \* that changed the view
    last             \* what the last handler or call did

vars == <<root, width, height, maxScale, position, lastFocus, lastLength,
          lastScaleFocus, workMode, brush, configs, brushHistory, strokes,
          histories, redoHistories, raster, holders, fingers, exported,
          exportedWas, moves, last>>

----------------------------------------------------------------------------
(* Bounds of the model *)

MaxStrokes == 2
MaxPoints == 3
MaxTouches == 3
MaxMoves == 2
MaxSegments == 6

----------------------------------------------------------------------------
(* Arithmetic *)

Abs(a) == IF a < 0 THEN -a ELSE a

Min2(a, b) == IF a < b THEN a ELSE b

Max2(a, b) == IF a > b THEN a ELSE b

\* a / b rounded to the nearest integer, b > 0
RDiv(a, b) == (2 * a + b) \div (2 * b)

\* the square root of n, rounded down
ISqrt(n) == CHOOSE r \in 0..n : (r + 1) * (r + 1) > n

\* scale s (thousandths) applied to the length a
Scaled(a, s) == RDiv(a * s, 1000)

clampNumber(value, min, max) == Min2(Max2(value, min), max)

Pt(px, py) == [x |-> px, y |-> py]

\* the squared distance of two points
Dist2(a, b) == (b.x - a.x) * (b.x - a.x) + (b.y - a.y) * (b.y - a.y)

RECURSIVE SumX(_)
SumX(s) == IF s = <<>> THEN 0 ELSE Head(s).x + SumX(Tail(s))

RECURSIVE SumY(_)
SumY(s) == IF s = <<>> THEN 0 ELSE Head(s).y + SumY(Tail(s))

RECURSIVE IsSubSeq(_, _)
\* s is t with some elements left out
IsSubSeq(s, t) ==
    IF s = <<>> THEN TRUE
    ELSE IF t = <<>> THEN FALSE
    ELSE IF Head(s) = Head(t) THEN IsSubSeq(Tail(s), Tail(t)) \/ IsSubSeq(s, Tail(t))
    ELSE IsSubSeq(s, Tail(t))

IsPrefix(s, t) == Len(s) <= Len(t) /\ SubSeq(t, 1, Len(s)) = s

----------------------------------------------------------------------------
(* The viewport: Position, and the pure geometry of Paper *)

\* Paper.loadSizeAndPosition: the contain-fit of the image in the container
loadSizeAndPosition(p, r, iw, ih) ==
    LET rw == r.offsetWidth
        rh == r.offsetHeight
        wide == rw * ih > iw * rh                  \* rw / rh > iw / ih
        ow == IF wide THEN RDiv(iw * rh, ih) ELSE rw
        oh == IF wide THEN rh ELSE RDiv(ih * rw, iw)
    IN  [p EXCEPT !.width = ow,
                  !.height = oh,
                  !.ox = RDiv(rw - ow, 2),
                  !.oy = RDiv(rh - oh, 2),
                  !.oScale = RDiv(ow * 1000, iw)]

\* Paper.relativePositionToTimePoint: a container point in image space
relativePositionToTimePoint(p, x, y) ==
    LET cx == x - (p.x + p.ox)
        cy == y - (p.y + p.oy)
        scale == Scaled(p.oScale, p.scale)
    IN  Pt(RDiv(cx * 1000, scale), RDiv(cy * 1000, scale))

\* Paper.computeScaleOffset, for the scale ratio num / den
computeScaleOffset(p, focus, num, den) ==
    LET px == focus.x - (p.x + p.ox)
        py == focus.y - (p.y + p.oy)
    IN  Pt(RDiv(px * (den - num), den), RDiv(py * (den - num), den))

\* a resize that fits the image again and keeps the pan and the zoom
onResizeFitOnly(p, r, iw, ih) == loadSizeAndPosition(p, r, iw, ih)

\* Paper.onResize: the position it leaves, the container having become r
onResize(p, r, iw, ih) ==
    [loadSizeAndPosition(p, r, iw, ih) EXCEPT !.x = 0, !.y = 0, !.scale = 1000]

\* Paper.computeLength: the distance of the first two touches
computeLength(ev) == ISqrt(Dist2(ev[1], ev[2]))

\* Paper.computeFocus: the centroid of the touches
computeFocus(ev) == Pt(RDiv(SumX(ev), Len(ev)), RDiv(SumY(ev), Len(ev)))

----------------------------------------------------------------------------
(* AnimationController.  `holders` is the queue of pending frame callbacks;
   each carries its AnimationHolder, the values its closures captured in
   animateTo, and `live`: whether the controller's holder field is this one. *)

\* a controller that never says it is animating
animatingNever(hs) == FALSE

\* AnimationController.animating
animating(hs) == \E i \in DOMAIN hs : hs[i].live

\* AnimationController.reset
reset(hs) ==
    [i \in DOMAIN hs |->
        IF hs[i].live THEN [hs[i] EXCEPT !.canceled = TRUE, !.live = FALSE] ELSE hs[i]]

\* an execute that starts the animation whatever the controller holds
executeAlways(hs, h) ==
    Append(hs, [h EXCEPT !.elapsed = 0, !.canceled = FALSE, !.live = TRUE])

\* AnimationController.execute, with the first requestAnimationFrame
execute(hs, h) ==
    IF animating(hs) THEN hs
    ELSE Append(hs, [h EXCEPT !.elapsed = 0, !.canceled = FALSE, !.live = TRUE])

\* an animateTo that always animates for maxDuration
animateToAtLength(p, hs, ex, ey, es, maxDuration, lost) ==
    [position |-> p,
     holders |-> execute(hs, [duration |-> maxDuration + Abs(es - p.scale), elapsed |-> 0,
                              canceled |-> FALSE, live |-> TRUE,
                              sx |-> p.x, sy |-> p.y, ss |-> p.scale,
                              ex |-> ex, ey |-> ey, es |-> es, lost |-> lost])]

\* Paper.animateTo
animateTo(p, hs, ex, ey, es, maxDuration, lost) ==
    LET sx == p.x
        sy == p.y
        ss == p.scale
        d2 == (ex - sx) * (ex - sx) + (ey - sy) * (ey - sy)
        \* clampNumber(sqrt(d2) * 4, 0, maxDuration)
        dt == IF 16 * d2 >= maxDuration * maxDuration THEN maxDuration ELSE ISqrt(16 * d2)
        \* |es - ss| * 1000 is the difference in thousandths
        ds == clampNumber(Abs(es - ss), 0, maxDuration)
        duration == Max2(dt, ds)
    IN  IF duration <= 0 THEN [position |-> p, holders |-> hs]
        ELSE IF duration < 16
        THEN [position |-> [p EXCEPT !.x = ex, !.y = ey, !.scale = es], holders |-> hs]
        ELSE [position |-> p,
              holders |-> execute(hs, [duration |-> duration, elapsed |-> 0,
                                       canceled |-> FALSE, live |-> TRUE,
                                       sx |-> sx, sy |-> sy, ss |-> ss,
                                       ex |-> ex, ey |-> ey, es |-> es,
                                       lost |-> lost])]

\* a bounds correction that clamps the scale and keeps the pan it finds
overBoundTargetUnclamped(p, r, ms, focus) ==
    LET scaleTo == clampNumber(p.scale, 1000, ms)
        off == computeScaleOffset(p, focus, scaleTo, p.scale)
    IN  IF scaleTo <= 1000 THEN [x |-> 0, y |-> 0, scale |-> 1000]
        ELSE [x |-> off.x + p.x, y |-> off.y + p.y, scale |-> scaleTo]

\* the target Paper.overBound animates to
overBoundTarget(p, r, ms, focus) ==
    LET scaleTo == clampNumber(p.scale, 1000, ms)
        off == computeScaleOffset(p, focus, scaleTo, p.scale)
        offx == off.x + p.x + p.ox
        offy == off.y + p.y + p.oy
        cx == r.offsetWidth - Scaled(p.width, scaleTo)
        cy == r.offsetHeight - Scaled(p.height, scaleTo)
        minX == Min2(cx, 0)
        minY == Min2(cy, 0)
        maxX == Max2(cx, 0)
        maxY == Max2(cy, 0)
    IN  IF scaleTo <= 1000 THEN [x |-> 0, y |-> 0, scale |-> 1000]
        ELSE [x |-> clampNumber(offx, minX, maxX) - p.ox,
              y |-> clampNumber(offy, minY, maxY) - p.oy,
              scale |-> scaleTo]

\* Paper.overBound
overBound(p, hs, r, ms, focus) ==
    LET t == overBoundTarget(p, r, ms, focus)
    IN  animateTo(p, hs, t.x, t.y, t.scale, 200, TRUE)

\* the frame callback of animateTo at progress el / dur
Interpolate(s, e, el, dur) == s + RDiv((e - s) * el, dur)

----------------------------------------------------------------------------
(* Brushes and strokes.  The application holds two brush objects, a
   MarkingBrush and an EraserBrush, and assigns one of them to the paper.
   W is the part of the state a brush works on:
   [strokes, brushHistory, raster]. *)

BrushNames == {"marking", "eraser"}

NoStroke == 0

\* BrushHistory.valid
valid(points) == Len(points) > 2

\* the name of the configs object the stroke i holds
OwnConfigs(i) == [brush |-> "", stroke |-> i]

\* the name of the configs object of the brush b
BrushConfigs(b) == [brush |-> b, stroke |-> NoStroke]

\* the configs a stroke points to, C being the brushes' configs
ConfigsOf(C, S, i) ==
    LET r == S[i].configs
    IN  IF r.brush # "" THEN C[r.brush] ELSE S[r.stroke].own

\* the name of a new object of the heap S
NewStroke(S) ==
    CHOOSE i \in 1..(Cardinality(DOMAIN S) + 1) :
        i \notin DOMAIN S /\ \A j \in 1..(i - 1) : j \in DOMAIN S

\* the heap with the object `obj` stored under the name i
Store(S, i, obj) == [j \in DOMAIN S \cup {i} |-> IF j = i THEN obj ELSE S[j]]

RECURSIVE Distinct(_, _)
\* the elements of s, each once, in the order they first come, after `seen`
Distinct(s, seen) ==
    IF s = <<>> THEN seen
    ELSE Distinct(Tail(s), IF \E k \in DOMAIN seen : seen[k] = Head(s)
                           THEN seen ELSE Append(seen, Head(s)))

\* the objects of the heap S the sequence `roots` leads to, in order
Reached(S, roots) ==
    LET held == [k \in DOMAIN roots |-> S[roots[k]].configs.stroke]
    IN  Distinct(roots \o SelectSeq(held, LAMBDA i : i # NoStroke), <<>>)

\* the name of the object i once the heap holds the objects of `order` only
NameIn(order, i) ==
    IF i = NoStroke THEN NoStroke ELSE CHOOSE k \in DOMAIN order : order[k] = i

\* the heap without the objects nothing leads to: what is left is named by
\* its place in `order`
Collect(S, order) ==
    [k \in DOMAIN order |-> [S[order[k]] EXCEPT !.configs.stroke = NameIn(order, @)]]

\* a toConfigs that hands out the configs object of the brush
toConfigsOfBrush(b, id) == [configs |-> BrushConfigs(b), own |-> configs[b]]

\* Brush.toConfigs for the new stroke `id`: a copy, held by the stroke itself
toConfigs(b, id) == [configs |-> OwnConfigs(id), own |-> configs[b]]

\* MarkingBrush.canDraw and EraserBrush.canDraw:
\* distance >= max(size / 4, 2), and distance >= max(size / 8, 2)
canDraw(b, prev, current) ==
    LET d2 == Dist2(prev, current)
        size == configs[b].size
    IN  IF b = "marking"
        THEN 16 * d2 >= Max2(size, 8) * Max2(size, 8)
        ELSE 64 * d2 >= Max2(size, 16) * Max2(size, 16)

\* PathBrush.draw: one segment painted with the brush's configs
draw(ras, cfg, early, prev, current) ==
    Append(ras, [configs |-> cfg, early |-> early, prev |-> prev, current |-> current])

\* PathBrush.drawDown
drawDown(W, b, point) ==
    LET id == NewStroke(W.strokes)
        c == toConfigs(b, id)
    IN  [W EXCEPT !.strokes = Store(W.strokes, id,
                                    [configs |-> c.configs, own |-> c.own,
                                     points |-> <<point>>]),
                  !.brushHistory[b] = id]

\* whether PathBrush.drawMove adds the point
accepts(W, b, point) ==
    LET pts == W.strokes[W.brushHistory[b]].points
    IN  ~(Len(pts) > 1 /\ ~canDraw(b, pts[Len(pts)], point))

\* PathBrush.drawMove, the brush having a stroke in progress
drawMove(W, b, point) ==
    LET id == W.brushHistory[b]
        pts == Append(W.strokes[id].points, point)
        n == Len(pts)
    IN  IF ~accepts(W, b, point) THEN W
        ELSE [W EXCEPT !.strokes[id].points = pts,
                       !.raster = IF valid(pts)
                                  THEN draw(W.raster, configs[b], pts[n - 2], pts[n - 1], pts[n])
                                  ELSE W.raster]

\* a drawUp that leaves the stroke as drawMove left it
drawUpAsIs(W, b) == W

\* PathBrush.drawUp
drawUp(W, b) ==
    LET id == W.brushHistory[b]
    IN  IF id = NoStroke \/ ~valid(W.strokes[id].points) THEN W
        ELSE LET old == W.strokes[id].points
                 pts == Append(old, old[Len(old)])
                 n == Len(pts)
             IN  [W EXCEPT !.strokes[id].points = pts,
                           !.raster = draw(W.raster, configs[b], pts[n - 2], pts[n - 1], pts[n])]

\* a cleanHistory that lets the brush keep the stroke it returns
cleanHistoryKept(W, b) == [history |-> W.brushHistory[b], W |-> W]

\* PathBrush.cleanHistory: the stroke it returns, and the brush without it
cleanHistory(W, b) ==
    [history |-> W.brushHistory[b], W |-> [W EXCEPT !.brushHistory[b] = NoStroke]]

RECURSIVE Segments(_, _, _, _)
\* the segments of one stroke, from the index i (1-based) of its third point on
Segments(ras, cfg, pts, i) ==
    IF i > Len(pts) THEN ras
    ELSE Segments(draw(ras, cfg, pts[i - 2], pts[i - 1], pts[i]), cfg, pts, i + 1)

RECURSIVE Replay(_, _, _, _)
\* the loop of Paper.redraw over the committed stack h
Replay(ras, C, S, h) ==
    IF h = <<>> THEN ras
    ELSE LET item == Head(h)
         IN  IF ~valid(S[item].points) THEN Replay(ras, C, S, Tail(h))
             ELSE Replay(Segments(ras, ConfigsOf(C, S, item), S[item].points, 3),
                         C, S, Tail(h))

\* Paper.redraw: the canvas cleared, then every valid stroke painted
redraw(C, S, h) == Replay(<<>>, C, S, h)

\* a cleanCurrentDraw that leaves the brush its stroke
cleanCurrentDrawKept(W, b, h) == [W |-> W, redraw |-> FALSE]

\* Paper.cleanCurrentDraw, for the brush b and the committed stack h
cleanCurrentDraw(W, b, h) ==
    LET c == cleanHistory(W, b)
    IN  IF c.history # NoStroke
        THEN [W |-> [c.W EXCEPT !.raster = redraw(configs, c.W.strokes, h)], redraw |-> TRUE]
        ELSE [W |-> c.W, redraw |-> FALSE]

----------------------------------------------------------------------------
(* The history: undo, redo, export *)

Range(s) == {s[k] : k \in DOMAIN s}

Front(s) == SubSeq(s, 1, Len(s) - 1)

\* Paper.canUndo
canUndo(h) == Len(h) > 0

\* Paper.canRedo
canRedo(r) == Len(r) > 0

\* an undo that redraws before it looks at the stack
undoRedrawn(h, r) ==
    IF ~(Len(h) > 0)
    THEN [ret |-> FALSE, histories |-> h, redoHistories |-> r, redraw |-> TRUE]
    ELSE [ret |-> TRUE, histories |-> Front(h),
          redoHistories |-> Append(r, h[Len(h)]), redraw |-> TRUE]

\* Paper.undo on the stacks h and r: what it returns, the stacks it leaves,
\* and whether it reached redraw()
undo(h, r) ==
    IF ~canUndo(h)
    THEN [ret |-> FALSE, histories |-> h, redoHistories |-> r, redraw |-> FALSE]
    ELSE [ret |-> TRUE, histories |-> Front(h),
          redoHistories |-> Append(r, h[Len(h)]), redraw |-> TRUE]

\* a redo that puts the stroke under the committed stack
redoUnder(h, r) ==
    IF ~(Len(r) > 0)
    THEN [ret |-> FALSE, histories |-> h, redoHistories |-> r, redraw |-> FALSE]
    ELSE [ret |-> TRUE, histories |-> <<r[Len(r)]>> \o h,
          redoHistories |-> Front(r), redraw |-> TRUE]

\* Paper.redo on the stacks h and r
redo(h, r) ==
    IF ~canRedo(r)
    THEN [ret |-> FALSE, histories |-> h, redoHistories |-> r, redraw |-> FALSE]
    ELSE [ret |-> TRUE, histories |-> Append(h, r[Len(r)]),
          redoHistories |-> Front(r), redraw |-> TRUE]

\* a push that leaves the redo stack alone
pushHistoryOnly(h, r, history) ==
    IF history = NoStroke
    THEN [histories |-> h, redoHistories |-> r]
    ELSE [histories |-> Append(h, history), redoHistories |-> r]

\* the end of Paper.onTouchEndProxy in drawing mode: the stroke cleanHistory
\* returned is pushed, and the redo stack emptied
pushHistory(h, r, history) ==
    IF history = NoStroke
    THEN [histories |-> h, redoHistories |-> r]
    ELSE [histories |-> Append(h, history), redoHistories |-> <<>>]

\* a clone that returns the stroke itself
cloneItself(C, S, i, id) == [name |-> i, obj |-> S[i]]

\* BrushHistory.clone of the stroke i: the name of the copy, and the copy
clone(C, S, i, id) ==
    [name |-> id,
     obj |-> [configs |-> OwnConfigs(id), own |-> ConfigsOf(C, S, i),
              points |-> S[i].points]]

RECURSIVE MapClone(_, _, _, _)
\* this.histories.map(x => x.clone())
MapClone(C, S, h, out) ==
    IF h = <<>> THEN [strokes |-> S, histories |-> out]
    ELSE LET c == clone(C, S, Head(h), NewStroke(S))
         IN  MapClone(C, Store(S, c.name, c.obj), Tail(h), Append(out, c.name))

\* an exportHistory of the stroke last committed only
exportHistoryOfLast(C, S, h, w, hh) ==
    LET m == MapClone(C, S, IF h = <<>> THEN h ELSE <<h[Len(h)]>>, <<>>)
    IN  [record |-> [width |-> w, height |-> hh, histories |-> m.histories,
                     shared |-> FALSE],
         strokes |-> m.strokes]

\* Paper.exportHistory: the record, and the heap with the record's strokes.
\* `shared` tells whether the record's `histories` array is the very array
\* an instance keeps as its committed stack; the array of a new record is
\* its own.
exportHistory(C, S, h, w, hh) ==
    LET m == MapClone(C, S, h, <<>>)
    IN  [record |-> [width |-> w, height |-> hh, histories |-> m.histories,
                     shared |-> FALSE],
         strokes |-> m.strokes]

\* what a stroke holds
StrokeValue(C, S, i) == [configs |-> ConfigsOf(C, S, i), points |-> S[i].points]

\* what a list of strokes holds
ListValue(C, S, h) == [k \in DOMAIN h |-> StrokeValue(C, S, h[k])]

\* what a history record holds
RecordValue(C, S, rec) ==
    [width |-> rec.width, height |-> rec.height,
     histories |-> ListValue(C, S, rec.histories)]

\* what the two stacks hold
Stacks(C, S, h, r) == [committed |-> ListValue(C, S, h), redone |-> ListValue(C, S, r)]

\* the strokes something still refers to: the stacks, the brushes and the
\* exported record, in this order
Roots(h, r, bh, ex) ==
    SelectSeq(h \o r \o <<bh["marking"], bh["eraser"]>>
                \o (IF ex = <<>> THEN <<>> ELSE ex[1].histories),
              LAMBDA i : i # NoStroke)

----------------------------------------------------------------------------
(* The state after new Paper(root, parent, canvas, image, maxScale, brush) *)

\* the record `last` of a constructor
Fresh(op) ==
    [op |-> op, ret |-> TRUE, redraw |-> FALSE, pushed |-> FALSE,
     threw |-> FALSE, from |-> <<>>, from2 |-> <<>>, drawn |-> <<>>,
     target |-> <<>>, pinch |-> <<>>, record |-> <<>>, painted |-> <<>>,
     was |-> <<>>, ignored |-> FALSE, since |-> ""]

\* the record `last` of a handler that did nothing more.  `ignored` tells
\* that the gesture the fingers are in began with a touch start of one touch
\* while an animation was in flight; it holds until the fingers have lifted.
\* `since` names the resize or the fitCenter call after which nothing but
\* animation frames has run.
Did(op) ==
    [Fresh(op) EXCEPT
        !.ignored = last.ignored /\ fingers # <<>>,
        !.since = IF op = "frame" THEN last.since
                  ELSE IF op \in {"resize", "fitCenter"} THEN op ELSE ""]

\* the configs of the application's brush objects: a MarkingBrush of the
\* given size, and an EraserBrush of the default size
BrushesOf(size) ==
    [b \in BrushNames |-> [type |-> b, size |-> IF b = "marking" THEN size ELSE 8]]

\* Paper.constructor, without a prior history, the brush being the marking
\* brush of the given size
Constructed(r, image, maxScaleArg, size) ==
    /\ root = r
    /\ width = image.width
    /\ height = image.height
    /\ maxScale = clampNumber(maxScaleArg, 1500, 3000)
    /\ position = loadSizeAndPosition(
                      [oScale |-> 1000, ox |-> 0, oy |-> 0, scale |-> 1000,
                       x |-> 0, y |-> 0, width |-> 0, height |-> 0],
                      r, image.width, image.height)
    /\ lastFocus = Pt(0, 0)
    /\ lastLength = 0
    /\ lastScaleFocus = Pt(0, 0)
    /\ workMode = 0
    /\ brush = "marking"
    /\ configs = BrushesOf(size)
    /\ brushHistory = [b \in BrushNames |-> NoStroke]
    /\ strokes = <<>>
    /\ histories = <<>>
    /\ redoHistories = <<>>
    /\ raster = <<>>
    /\ holders = <<>>
    /\ fingers = <<>>
    /\ exported = <<>>
    /\ exportedWas = <<>>
    /\ moves = 0
    /\ last = Fresh("new")

\* a constructor that keeps the strokes of any record
keptWhatever(rec, w, h) == rec.histories

\* Paper.constructor: the strokes of the prior history `rec` the new instance
\* keeps, its image being w wide and h high
keptHistories(rec, w, h) ==
    IF rec.width # w \/ rec.height # h THEN <<>> ELSE rec.histories

----------------------------------------------------------------------------
(* The handlers of Paper *)

\* the part of the state the current brush works on
World == [strokes |-> strokes, brushHistory |-> brushHistory, raster |-> raster]

\* the next state of the brushes is W, of the stacks h and r, and of the
\* record the application holds ex
Becomes(W, h, r, ex) ==
    LET \* a record whose array is the committed stack holds what the stack holds
        held == IF ex = <<>> THEN <<>>
                ELSE <<[ex[1] EXCEPT !.histories = IF ex[1].shared THEN h ELSE @]>>
        order == Reached(W.strokes, Roots(h, r, W.brushHistory, held))
    IN  /\ strokes' = Collect(W.strokes, order)
        /\ histories' = [k \in DOMAIN h |-> NameIn(order, h[k])]
        /\ redoHistories' = [k \in DOMAIN r |-> NameIn(order, r[k])]
        /\ brushHistory' = [b \in BrushNames |-> NameIn(order, W.brushHistory[b])]
        /\ exported' = IF held = <<>> THEN <<>>
                       ELSE <<[held[1] EXCEPT !.histories =
                                  [k \in DOMAIN held[1].histories |->
                                      NameIn(order, held[1].histories[k])]]>>
        /\ raster' = W.raster

\* the two stacks as they are now
StacksNow == Stacks(configs, strokes, histories, redoHistories)

\* Paper.onTouchStartProxy; ev is event.targetTouches: the touches already
\* down, followed by the new ones
OnTouchStart(ev) ==
    /\ Len(ev) > Len(fingers)
    /\ Len(ev) <= MaxTouches
    /\ IsPrefix(fingers, ev)
    /\ fingers' = ev
    /\ last' = IF Len(ev) > 1 /\ workMode # 0
               THEN [Did("touchstart") EXCEPT
                        \* whether cleanCurrentDraw reached redraw()
                        !.redraw = cleanCurrentDraw(World, brush, histories).redraw,
                        \* a pinch starts at rest: the scale and the finger distance
                        !.pinch = IF holders # <<>> THEN <<>>
                                  ELSE <<[scale |-> position.scale,
                                          length |-> computeLength(ev)]>>]
               ELSE IF Len(ev) = 1 /\ \E i \in DOMAIN holders : holders[i].live
               THEN [Did("touchstart") EXCEPT !.ignored = TRUE]
               ELSE Did("touchstart")
    /\ LET touchCount == Len(ev)
       IN  IF touchCount = 1 /\ animating(holders)
           THEN /\ workMode' = 0
                /\ UNCHANGED <<lastFocus, lastLength, lastScaleFocus, strokes,
                               brushHistory, raster, histories, redoHistories,
                               exported>>
           ELSE IF touchCount # 1 /\ workMode = 0
           THEN UNCHANGED <<workMode, lastFocus, lastLength, lastScaleFocus, strokes,
                            brushHistory, raster, histories, redoHistories, exported>>
           ELSE LET mode == IF touchCount <= 1 THEN 1 ELSE 2
                    focus == computeFocus(ev)
                IN  /\ workMode' = mode
                    /\ lastFocus' = focus
                    /\ IF mode = 1
                       THEN /\ Becomes(drawDown(World, brush,
                                           relativePositionToTimePoint(position, focus.x, focus.y)),
                                       histories, redoHistories, exported)
                            /\ UNCHANGED <<lastLength, lastScaleFocus>>
                       ELSE /\ Becomes(cleanCurrentDraw(World, brush, histories).W,
                                       histories, redoHistories, exported)
                            /\ lastLength' = computeLength(ev)
                            /\ lastScaleFocus' = focus
    /\ UNCHANGED <<root, width, height, maxScale, position, brush, configs, holders,
                   exportedWas, moves>>

\* Paper.onTouchMoveProxy in drawing mode
TouchMoveDrawing(ev) ==
    LET focus == computeFocus(ev)
        point == relativePositionToTimePoint(position, focus.x, focus.y)
    IN  IF brushHistory[brush] = NoStroke
        THEN \* drawMove reads `count` of undefined: the handler throws
             /\ last' = [Did("touchmove") EXCEPT !.threw = TRUE]
             /\ UNCHANGED <<strokes, brushHistory, raster, histories, redoHistories,
                            exported>>
        ELSE /\ accepts(World, brush, point)
                    => Len(strokes[brushHistory[brush]].points) < MaxPoints
             /\ Len(drawMove(World, brush, point).raster) <= MaxSegments
             /\ last' = Did("touchmove")
             /\ Becomes(drawMove(World, brush, point), histories, redoHistories, exported)

\* Paper.onTouchMoveProxy in transforming mode: the next position, the next
\* baseline, and whether the view was updated
Transformed(ev) ==
    LET focus == computeFocus(ev)
        dx == focus.x - lastFocus.x
        dy == focus.y - lastFocus.y
        curLength == IF Len(ev) > 1 THEN computeLength(ev) ELSE lastLength
        \* Math.abs(curLength / lastLength - 1.0) > 0.005
        zoom == Len(ev) > 1 /\ 200 * Abs(curLength - lastLength) > lastLength
        offset == IF zoom THEN computeScaleOffset(position, focus, curLength, lastLength)
                  ELSE Pt(0, 0)
        deltaX == dx + offset.x
        deltaY == dy + offset.y
        \* delta.x * delta.x + delta.y * delta.y > 0.25
        updated == zoom \/ 4 * (deltaX * deltaX + deltaY * deltaY) > 1
    IN  [position |-> [position EXCEPT
                          !.scale = IF zoom THEN RDiv(@ * curLength, lastLength) ELSE @,
                          !.x = IF updated THEN @ + deltaX ELSE @,
                          !.y = IF updated THEN @ + deltaY ELSE @],
         lastLength |-> IF zoom THEN curLength ELSE lastLength,
         lastScaleFocus |-> IF zoom THEN focus ELSE lastScaleFocus,
         lastFocus |-> IF updated THEN focus ELSE lastFocus,
         updated |-> updated]

\* Paper.onTouchMoveProxy; ev is event.targetTouches: the same touches, one
\* of them at least having moved
OnTouchMove(ev) ==
    /\ Len(ev) = Len(fingers)
    /\ Len(ev) >= 1
    /\ ev # fingers
    /\ fingers' = ev
    /\ IF workMode = 0
       THEN /\ last' = Did("touchmove")
            /\ UNCHANGED <<position, lastFocus, lastLength, lastScaleFocus, strokes,
                           brushHistory, raster, histories, redoHistories, exported,
                           moves>>
       ELSE IF workMode = 1
       THEN /\ TouchMoveDrawing(ev)
            /\ UNCHANGED <<position, lastFocus, lastLength, lastScaleFocus, moves>>
       ELSE LET t == Transformed(ev)
            IN  /\ t.updated => moves < MaxMoves
                /\ moves' = IF t.updated THEN moves + 1 ELSE moves
                /\ position' = t.position
                /\ lastLength' = t.lastLength
                /\ lastScaleFocus' = t.lastScaleFocus
                /\ lastFocus' = t.lastFocus
                /\ last' = [Did("touchmove") EXCEPT !.pinch = last.pinch]
                /\ UNCHANGED <<strokes, brushHistory, raster, histories, redoHistories,
                               exported>>
    /\ UNCHANGED <<root, width, height, maxScale, workMode, brush, configs, holders,
                   exportedWas>>

\* a touch end that leaves the baseline of the pinch as it finds it
reseedNothing(ev, base) == base

\* Paper.onTouchEndProxy in transforming mode: the baseline [lastFocus,
\* lastLength, lastScaleFocus] it leaves, ev being the touches that stay
reseed(ev, base) ==
    IF Len(ev) > 1
    THEN [lastFocus |-> computeFocus(ev), lastLength |-> computeLength(ev),
          lastScaleFocus |-> computeFocus(ev)]
    ELSE IF Len(ev) > 0
    THEN [base EXCEPT !.lastFocus = computeFocus(ev)]
    ELSE base

\* the record `last` of a touch end: the points the brush held before
\* drawUp, whether a stroke was pushed, the stacks before the handler ran
\* and, when this is the second delivery for one gesture, the stacks before
\* the first
Ended(drawn, pushed) ==
    [Did("touchend") EXCEPT
        !.drawn = drawn, !.pushed = pushed, !.from = <<StacksNow>>,
        !.from2 = IF fingers = <<>> /\ last.op = "touchend" THEN last.from ELSE <<>>]

\* Paper.onTouchEndProxy, which serves touchend and touchcancel; ev is
\* event.targetTouches: the touches that stay.  A second delivery for a
\* gesture that has ended (touchend, then touchcancel) finds no touch left.
OnTouchEnd(ev) ==
    /\ \/ Len(ev) < Len(fingers) /\ IsSubSeq(ev, fingers)
       \/ fingers = <<>> /\ ev = <<>> /\ last.op = "touchend"
    /\ fingers' = ev
    /\ IF workMode = 0
       THEN /\ last' = Ended(<<>>, FALSE)
            /\ UNCHANGED <<position, lastFocus, lastLength, lastScaleFocus, strokes,
                           brushHistory, raster, histories, redoHistories, exported,
                           holders>>
       ELSE IF workMode = 1
       THEN LET c == cleanHistory(drawUp(World, brush), brush)
                p == pushHistory(histories, redoHistories, c.history)
            IN  /\ Len(p.histories) <= MaxStrokes
                /\ Len(c.W.raster) <= MaxSegments
                /\ Becomes(c.W, p.histories, p.redoHistories, exported)
                /\ last' = Ended(IF c.history = NoStroke THEN <<>>
                                  ELSE strokes[c.history].points,
                                  Len(p.histories) > Len(histories))
                /\ UNCHANGED <<position, lastFocus, lastLength, lastScaleFocus, holders>>
       ELSE /\ last' = [Ended(<<>>, FALSE) EXCEPT
                               !.pinch = last.pinch,
                               !.target = IF Len(ev) > 0 THEN <<>>
                                          ELSE <<overBoundTarget(position, root, maxScale,
                                                                 lastScaleFocus)>>]
            /\ UNCHANGED <<strokes, brushHistory, raster, histories, redoHistories,
                           exported>>
            /\ LET base == reseed(ev, [lastFocus |-> lastFocus, lastLength |-> lastLength,
                                        lastScaleFocus |-> lastScaleFocus])
               IN  /\ lastFocus' = base.lastFocus
                   /\ lastLength' = base.lastLength
                   /\ lastScaleFocus' = base.lastScaleFocus
            /\ IF Len(ev) > 0
               THEN UNCHANGED <<position, holders>>
               ELSE LET a == overBound(position, holders, root, maxScale, lastScaleFocus)
                    IN  /\ position' = a.position
                        /\ holders' = a.holders
    /\ UNCHANGED <<root, width, height, maxScale, workMode, brush, configs,
                   exportedWas, moves>>

\* Paper.undo, called by the application
Undo ==
    LET u == undo(histories, redoHistories)
    IN  /\ Becomes([World EXCEPT !.raster = IF u.redraw
                                           THEN redraw(configs, strokes, u.histories)
                                           ELSE raster],
                   u.histories, u.redoHistories, exported)
        /\ last' = [Did("undo") EXCEPT
                       !.ret = u.ret, !.redraw = u.redraw, !.from = <<StacksNow>>,
                       !.from2 = IF last.op = "redo" /\ last.ret THEN last.from ELSE <<>>]
        /\ UNCHANGED <<root, width, height, maxScale, position, lastFocus, lastLength,
                       lastScaleFocus, workMode, brush, configs, holders, fingers,
                       exportedWas, moves>>

\* Paper.redo, called by the application
Redo ==
    LET u == redo(histories, redoHistories)
    IN  /\ Becomes([World EXCEPT !.raster = IF u.redraw
                                           THEN redraw(configs, strokes, u.histories)
                                           ELSE raster],
                   u.histories, u.redoHistories, exported)
        /\ last' = [Did("redo") EXCEPT
                       !.ret = u.ret, !.redraw = u.redraw, !.from = <<StacksNow>>,
                       !.from2 = IF last.op = "undo" /\ last.ret THEN last.from ELSE <<>>]
        /\ UNCHANGED <<root, width, height, maxScale, position, lastFocus, lastLength,
                       lastScaleFocus, workMode, brush, configs, holders, fingers,
                       exportedWas, moves>>

\* Paper.exportHistory, called by the application, which keeps the record
ExportHistory ==
    LET e == exportHistory(configs, strokes, histories, width, height)
    IN  /\ Becomes([World EXCEPT !.strokes = e.strokes], histories, redoHistories,
                   <<e.record>>)
        /\ exportedWas' = <<RecordValue(configs, e.strokes, e.record)>>
        /\ last' = Did("export")
        /\ UNCHANGED <<root, width, height, maxScale, position, lastFocus, lastLength,
                       lastScaleFocus, workMode, brush, configs, holders, fingers, moves>>

\* new Paper(root, parent, canvas, image, maxScale, brush, history): the
\* application makes a new instance from the record it holds, on a root of
\* the same size that no finger touches, with the brush it has.  The new
\* instance takes the place of the old one.  Its committed stack is the
\* record's array itself.
Construct(image) ==
    /\ exported # <<>>
    /\ LET rec == exported[1]
           h == keptHistories(rec, image.width, image.height)
       IN  /\ Becomes([World EXCEPT !.raster = redraw(configs, strokes, h)],
                      h, <<>>, <<[rec EXCEPT !.shared = TRUE]>>)
           /\ last' = [Fresh("new") EXCEPT
                          !.from = <<StacksNow>>,
                          !.from2 = IF last.op = "export" THEN <<StacksNow>> ELSE <<>>,
                          !.record = <<RecordValue(configs, strokes, rec)>>,
                          !.painted = <<redraw(configs, strokes, histories)>>]
    /\ width' = image.width
    /\ height' = image.height
    /\ position' = loadSizeAndPosition(
                       [oScale |-> 1000, ox |-> 0, oy |-> 0, scale |-> 1000,
                        x |-> 0, y |-> 0, width |-> 0, height |-> 0],
                       root, image.width, image.height)
    /\ lastFocus' = Pt(0, 0)
    /\ lastLength' = 0
    /\ lastScaleFocus' = Pt(0, 0)
    /\ workMode' = 0
    /\ holders' = <<>>
    /\ fingers' = <<>>
    /\ UNCHANGED <<root, maxScale, brush, configs, exportedWas, moves>>

\* the ways the application writes to a record it holds
MutationKinds == {"points", "size", "list"}

\* the application writes to the record exportHistory returned: it removes the
\* last point of the record's first stroke, sets the size in that stroke's
\* configs, or removes the record's last stroke
MutateExported(kind) ==
    /\ exported # <<>>
    /\ exported[1].histories # <<>>
    /\ LET rec == exported[1]
           first == rec.histories[1]
           target == strokes[first].configs
           heap == IF kind = "points"
                   THEN [strokes EXCEPT ![first].points = Front(@)]
                   ELSE IF kind = "size" /\ target.brush = ""
                   THEN [strokes EXCEPT ![target.stroke].own.size = 99]
                   ELSE strokes
           cfgs == IF kind = "size" /\ target.brush # ""
                   THEN [configs EXCEPT ![target.brush].size = 99]
                   ELSE configs
           after == IF kind = "list" THEN [rec EXCEPT !.histories = Front(@)] ELSE rec
       IN  /\ kind = "points" => strokes[first].points # <<>>
           /\ configs' = cfgs
           /\ Becomes([World EXCEPT !.strokes = heap],
                      IF rec.shared THEN after.histories ELSE histories,
                      redoHistories, <<after>>)
           /\ exportedWas' = <<RecordValue(cfgs, heap, after)>>
    /\ last' = [Did("mutate") EXCEPT !.from = <<StacksNow>>]
    /\ UNCHANGED <<root, width, height, maxScale, position, lastFocus, lastLength,
                   lastScaleFocus, workMode, brush, holders, fingers, moves>>

\* the setter Paper.currentBrush
SetBrush(b) ==
    /\ brush' = b
    /\ last' = Did("currentBrush")
    /\ UNCHANGED <<root, width, height, maxScale, position, lastFocus, lastLength,
                   lastScaleFocus, workMode, configs, brushHistory, strokes, histories,
                   redoHistories, raster, holders, fingers, exported, exportedWas, moves>>

\* the setter Brush.strokeSize of the brush object b
SetStrokeSize(b, size) ==
    /\ configs' = [configs EXCEPT ![b].size = size]
    /\ last' = Did("strokeSize")
    /\ UNCHANGED <<root, width, height, maxScale, position, lastFocus, lastLength,
                   lastScaleFocus, workMode, brush, brushHistory, strokes, histories,
                   redoHistories, raster, holders, fingers, exported, exportedWas, moves>>

\* Paper.fitCenter, called by the application
FitCenter ==
    LET a == animateTo(position, reset(holders), 0, 0, 1000, 200, FALSE)
        changed == a.position # position \/ a.holders # holders
    IN  /\ changed => moves < MaxMoves
        /\ moves' = IF changed THEN moves + 1 ELSE moves
        /\ position' = a.position
        /\ holders' = a.holders
        /\ last' = Did("fitCenter")
        /\ UNCHANGED <<root, width, height, maxScale, lastFocus, lastLength,
                       lastScaleFocus, workMode, brush, configs, brushHistory, strokes,
                       histories, redoHistories, raster, fingers, exported, exportedWas>>

\* Paper.onResize, the container having become r
OnResize(r) ==
    /\ moves < MaxMoves
    /\ moves' = moves + 1
    /\ root' = r
    /\ position' = onResize(position, r, width, height)
    /\ last' = [Did("resize") EXCEPT !.from = <<StacksNow>>, !.was = <<position>>]
    /\ UNCHANGED <<width, height, maxScale, lastFocus, lastLength, lastScaleFocus,
                   workMode, brush, configs, brushHistory, strokes, histories,
                   redoHistories, raster, holders, fingers, exported, exportedWas>>

\* a clock that stands still
LaterNever(hs, dt) == hs

\* the holders, dt milliseconds later
Later(hs, dt) ==
    [i \in DOMAIN hs |-> [hs[i] EXCEPT !.elapsed = Min2(@ + dt, hs[i].duration)]]

\* the position a holder's frame callback writes
Written(p, h) ==
    [p EXCEPT !.x = Interpolate(h.sx, h.ex, h.elapsed, h.duration),
              !.y = Interpolate(h.sy, h.ey, h.elapsed, h.duration),
              !.scale = Interpolate(h.ss, h.es, h.elapsed, h.duration)]

RECURSIVE RunFrame(_, _, _)
\* the callbacks `hs` requested for this frame run in turn (the closure of
\* AnimationController.requestAnimationFrame); `again` collects the requests
\* for the next frame
RunFrame(p, hs, again) ==
    IF hs = <<>> THEN [position |-> p, holders |-> again]
    ELSE LET h == Head(hs)
             framed == Written(p, h)
         IN  IF h.elapsed >= h.duration
             THEN \* completed: no completedCallback is given; cleanFinishAnimation
                  RunFrame(framed, Tail(hs), again)
             ELSE IF h.canceled
             THEN \* the canceledCallback, unless `lost`; cleanFinishAnimation
                  RunFrame(IF h.lost THEN framed
                           ELSE [framed EXCEPT !.x = h.ex, !.y = h.ey, !.scale = h.es],
                           Tail(hs), again)
             ELSE RunFrame(framed, Tail(hs), Append(again, h))

\* the host runs an animation frame, dt milliseconds after the last one
Frame(dt) ==
    /\ holders # <<>>
    /\ LET f == RunFrame(position, Later(holders, dt), <<>>)
       IN  /\ position' = f.position
           /\ holders' = f.holders
    /\ last' = Did("frame")
    /\ UNCHANGED <<root, width, height, maxScale, lastFocus, lastLength, lastScaleFocus,
                   workMode, brush, configs, brushHistory, strokes, histories,
                   redoHistories, raster, fingers, exported, exportedWas, moves>>

----------------------------------------------------------------------------
(* The environment: a 1000 x 800 image in a 1000 x 1000 container, so that
   the image is shown at its own size, 100 pixels below the container's top *)

Image == [width |-> 1000, height |-> 800]

Container == [offsetWidth |-> 1000, offsetHeight |-> 1000]

\* the touch at the container point (x, y)
Touch(x, y) == Pt(x, y)

\* the touch lists of a drawing session: one finger over the image points
\* (10, 10), (12, 11) and (50, 60), or two fingers
DrawTouches ==
    {<<Touch(10, 110)>>, <<Touch(12, 111)>>, <<Touch(50, 160)>>,
     <<Touch(50, 160), Touch(150, 160)>>}

\* the touch lists a drawing session's gestures start with: a finger goes
\* down at the first point, or two fingers go down
DrawStarts ==
    {<<Touch(10, 110)>>, <<Touch(50, 160), Touch(150, 160)>>}

\* the stroke sizes the application sets
Sizes == {8, 32}

InitDraw == \E size \in Sizes : Constructed(Container, Image, 2000, size)

NextDraw ==
    \/ \E ev \in DrawStarts : OnTouchStart(ev)
    \/ \E ev \in DrawTouches : OnTouchMove(ev)
    \/ OnTouchEnd(<<>>)
    \/ Undo
    \/ Redo

\* a drawing session: strokes with one brush, undo and redo
SpecDraw == InitDraw /\ [][NextDraw]_vars

InitExport == Constructed(Container, Image, 2000, 8)

\* the touch lists of the gestures of this session: one finger, over the
\* image points (10, 10) and (50, 60)
ExportTouches == {<<Touch(10, 110)>>, <<Touch(50, 160)>>}

NextExport ==
    \/ \E ev \in ExportTouches \cap DrawStarts : OnTouchStart(ev)
    \/ \E ev \in ExportTouches : OnTouchMove(ev)
    \/ OnTouchEnd(<<>>)
    \/ Undo
    \/ Redo
    \/ ExportHistory
    \/ \E kind \in MutationKinds : MutateExported(kind)

\* a drawing session in which the application exports the history and
\* writes to the records it got
SpecExport == InitExport /\ [][NextExport]_vars

NextSize ==
    \/ \E ev \in ExportTouches \cap DrawStarts : OnTouchStart(ev)
    \/ \E ev \in ExportTouches : OnTouchMove(ev)
    \/ OnTouchEnd(<<>>)
    \/ Undo
    \/ \E size \in Sizes : SetStrokeSize("marking", size)

\* a drawing session in which the application sets the size of the brush
SpecSize == InitExport /\ [][NextSize]_vars

NextSwap ==
    \/ \E ev \in ExportTouches \cap DrawStarts : OnTouchStart(ev)
    \/ \E ev \in ExportTouches : OnTouchMove(ev)
    \/ OnTouchEnd(<<>>)
    \/ SetBrush("eraser")

\* a drawing session in which the application makes the eraser the current
\* brush
SpecSwap == InitExport /\ [][NextSwap]_vars

\* the images the application opens: the image of the session, and one of
\* another height
Images == {Image, [width |-> 1000, height |-> 600]}

InitImport == Constructed(Container, Image, 2000, 8)

NextImport ==
    \/ \E ev \in ExportTouches \cap DrawStarts : OnTouchStart(ev)
    \/ \E ev \in ExportTouches : OnTouchMove(ev)
    \/ OnTouchEnd(<<>>)
    \/ Undo
    \/ ExportHistory
    \/ \E image \in Images : Construct(image)

\* a drawing session in which the application exports the history and makes
\* new instances from the records it got
SpecImport == InitImport /\ [][NextImport]_vars

\* two fingers on the horizontal through the point (cx, 500), d apart
Pinch(cx, d) == <<Touch(cx - d \div 2, 500), Touch(cx + d \div 2, 500)>>

\* the finger distances of a viewing session
Lengths == {98, 100, 120, 260}

\* the touch lists of a viewing session: one finger, or two fingers about
\* the container's centre or to the right of it
ViewTouches ==
    {<<Touch(450, 500)>>} \cup {Pinch(500, d) : d \in Lengths} \cup {Pinch(900, 120)}

\* the touch lists a viewing session's gestures start with
ViewStarts == {<<Touch(450, 500)>>, Pinch(500, 100)}

\* the sizes the container takes
Containers == {Container, [offsetWidth |-> 1000, offsetHeight |-> 800]}

\* the times between two animation frames, in milliseconds
FrameTimes == {8, 40}

InitView == Constructed(Container, Image, 2000, 8)

\* the two fingers of a pinch lift together
PinchEnd == Len(fingers) = 2 /\ OnTouchEnd(<<>>)

NextView ==
    \/ \E ev \in ViewStarts : OnTouchStart(ev)
    \/ \E ev \in ViewTouches : OnTouchMove(ev)
    \/ PinchEnd
    \/ FitCenter
    \/ \E dt \in FrameTimes : Frame(dt)

\* the touch lists of a session in which the container is resized: one
\* finger, or two fingers about the container's centre
ResizeTouches ==
    {<<Touch(450, 500)>>, <<Touch(460, 520)>>, Pinch(500, 100), Pinch(500, 260)}

NextResize ==
    \/ \E ev \in ViewStarts : OnTouchStart(ev)
    \/ \E ev \in ResizeTouches : OnTouchMove(ev)
    \/ OnTouchEnd(<<>>)
    \/ \E dt \in FrameTimes : Frame(dt)
    \/ \E r \in Containers : OnResize(r)

\* a session of strokes and pinches in which the container is resized
SpecResize == InitView /\ [][NextResize]_vars

\* the touch lists of a session of three fingers: the first two on the
\* horizontal through (500, 500), 100 or 140 apart, the third below them
ReleaseTouches ==
    {<<Touch(450, 500)>>, <<Touch(430, 500)>>, <<Touch(500, 620)>>,
     Pinch(500, 100), Pinch(500, 140),
     <<Touch(430, 500), Touch(500, 620)>>,
     Pinch(500, 100) \o <<Touch(500, 620)>>, Pinch(500, 140) \o <<Touch(500, 620)>>}

\* the touch lists the gestures of this session start with: the fingers
\* come down one by one
ReleaseStarts ==
    {<<Touch(450, 500)>>, Pinch(500, 100), Pinch(500, 100) \o <<Touch(500, 620)>>}

NextRelease ==
    \/ \E ev \in ReleaseStarts : OnTouchStart(ev)
    \/ \E ev \in ReleaseTouches : Len(ev) > 1 /\ OnTouchMove(ev)
    \/ \E ev \in ReleaseTouches \cup {<<>>} : OnTouchEnd(ev)

\* a session of gestures of up to three fingers, which lift one by one
SpecRelease == InitView /\ [][NextRelease]_vars

\* a viewing session: pinch and pan, fitCenter, animation frames
SpecView == InitView /\ [][NextView]_vars

\* the host runs the frame callbacks it was asked for
RunsFrames == \E dt \in FrameTimes : Frame(dt)

\* the touch lists of a session of pinches in and out
FrameTouches == {Pinch(500, 98), Pinch(500, 100), Pinch(500, 260)}

NextFrames ==
    \/ \E ev \in ViewStarts : OnTouchStart(ev)
    \/ \E ev \in FrameTouches : OnTouchMove(ev)
    \/ PinchEnd
    \/ FitCenter
    \/ RunsFrames

\* a viewing session in which every requested frame comes, the clock having
\* advanced
SpecFrames == InitView /\ [][NextFrames]_vars /\ WF_vars(RunsFrames)

----------------------------------------------------------------------------
(* Properties of the history *)

\* the points of the stroke at place k of the committed stack
CommittedPoints(k) == strokes[histories[k]].points

\* C1: every stroke in the committed stack or the redo stack has more than
\* 2 points
C1_StacksHoldValidStrokes ==
    /\ \A k \in DOMAIN histories : valid(strokes[histories[k]].points)
    /\ \A k \in DOMAIN redoHistories : valid(strokes[redoHistories[k]].points)

\* C2: when the end of a draw gesture has pushed a stroke, the redo stack is
\* empty, canRedo is false and redo() would return false
C2_PushEmptiesRedo ==
    (last.op = "touchend" /\ last.pushed)
        => /\ redoHistories = <<>>
           /\ ~canRedo(redoHistories)
           /\ ~redo(histories, redoHistories).ret

\* a stroke was pushed while the redo stack held a stroke
C2_PushedOverRedo ==
    /\ last.op = "touchend"
    /\ last.pushed
    /\ last.from[1].redone # <<>>

\* C3: undo() on a non-empty committed stack and redo() on a non-empty redo
\* stack return true; undo() followed at once by redo(), and redo() followed
\* at once by undo(), leave both stacks as they were before the pair
C3_UndoRedoRestores ==
    /\ (last.op = "undo" /\ last.from[1].committed # <<>>) => last.ret
    /\ (last.op = "redo" /\ last.from[1].redone # <<>>) => last.ret
    /\ (last.op \in {"undo", "redo"} /\ last.from2 # <<>>)
           => last.ret /\ StacksNow = last.from2[1]

\* redo() has just followed undo() on a stack of two different strokes
C3_RedoAfterUndo ==
    /\ last.op = "redo"
    /\ last.from2 # <<>>
    /\ Len(histories) = 2
    /\ StacksNow.committed[1] # StacksNow.committed[2]

\* C4: undo() on an empty committed stack and redo() on an empty redo stack
\* return false, redraw nothing and leave the stacks and the raster as they
\* were
C4_EmptyIsNoOp ==
    [][(\/ last'.op = "undo" /\ ~canUndo(histories)
        \/ last'.op = "redo" /\ ~canRedo(redoHistories))
          => /\ ~last'.ret
             /\ ~last'.redraw
             /\ raster' = raster
             /\ histories' = histories
             /\ redoHistories' = redoHistories
             /\ strokes' = strokes]_vars

\* undo() has failed on an empty stack while the raster showed a stroke in
\* progress
C4_UndoOnEmpty ==
    /\ last.op = "undo"
    /\ ~last.ret
    /\ histories = <<>>
    /\ raster # <<>>

\* C5: the end of a draw gesture whose brush holds at least 3 points appends
\* one valid stroke to the committed stack, and a second delivery of the end
\* of the same gesture changes neither stack
C5_ValidStrokePushedOnce ==
    /\ (last.op = "touchend" /\ Len(last.drawn) >= 3)
           => /\ last.pushed
              /\ Len(histories) = Len(last.from[1].committed) + 1
              /\ Front(StacksNow.committed) = last.from[1].committed
              /\ valid(CommittedPoints(Len(histories)))
    /\ (last.op = "touchend" /\ last.from2 # <<>>)
           => /\ ~last.pushed
              /\ StacksNow = last.from[1]

\* the end of a gesture was delivered twice, and the first delivery had
\* pushed a stroke of at least 3 accepted points
C5_EndDeliveredTwice ==
    /\ last.op = "touchend"
    /\ last.from2 # <<>>
    /\ Len(last.from[1].committed) = Len(last.from2[1].committed) + 1
    /\ Len(CommittedPoints(Len(histories))) > 3

\* the scenario of C8: an empty history, the marking brush of size 8, and a
\* gesture of the image points (10, 10), (12, 11), (50, 60) that has ended
C8_Scenario ==
    /\ last.op = "touchend"
    /\ last.drawn = <<Pt(10, 10), Pt(12, 11), Pt(50, 60)>>
    /\ last.from[1] = [committed |-> <<>>, redone |-> <<>>]
    /\ brush = "marking"
    /\ configs["marking"].size = 8

\* C8 as stated: the scenario leaves one stroke of exactly 3 points,
\* canUndo true and canRedo false
C8_StrokeOfThreePoints ==
    C8_Scenario
        => /\ Len(histories) = 1
           /\ Len(CommittedPoints(1)) = 3
           /\ canUndo(histories)
           /\ ~canRedo(redoHistories)

\* C8: the scenario leaves one stroke of 4 points, the three delivered and
\* the last of them once more, canUndo true and canRedo false
C8_StrokeOfFourPoints ==
    C8_Scenario
        => /\ Len(histories) = 1
           /\ CommittedPoints(1) = <<Pt(10, 10), Pt(12, 11), Pt(50, 60), Pt(50, 60)>>
           /\ canUndo(histories)
           /\ ~canRedo(redoHistories)

\* the scenario of C8 has happened
C8_ScenarioDone == C8_Scenario /\ Len(histories) = 1

\* C10: the record exportHistory returned holds what it held when the
\* application last looked at it, whatever the instance has done since; and
\* a write of the application to the record leaves both stacks as they were
C10_ExportIsACopy ==
    /\ exported # <<>> => RecordValue(configs, strokes, exported[1]) = exportedWas[1]
    /\ last.op = "mutate" => StacksNow = last.from[1]

\* the application has written to the configs of a stroke of the record, and
\* the instance has gone on: a stroke was undone
C10_WrittenAndUndone ==
    /\ exported # <<>>
    /\ exportedWas[1].histories # <<>>
    /\ exportedWas[1].histories[1].configs.size = 99
    /\ last.op = "undo"
    /\ last.ret

\* an instance has just been made from a history record
Imported == last.op = "new" /\ last.record # <<>>

\* C11: an instance made from a record whose width or height differs from
\* the image's has both stacks empty, canUndo and canRedo false, and its
\* construction raises no error; when both match, the committed stack holds
\* every stroke of the record
C11_MismatchedHistoryDiscarded ==
    Imported =>
        /\ ~last.threw
        /\ redoHistories = <<>>
        /\ ~canRedo(redoHistories)
        /\ (last.record[1].width # width \/ last.record[1].height # height)
               => histories = <<>> /\ ~canUndo(histories)
        /\ (last.record[1].width = width /\ last.record[1].height = height)
               => StacksNow.committed = last.record[1].histories

\* an instance was made from a record of two strokes and an image of
\* another height
C11_MismatchedImport ==
    /\ Imported
    /\ Len(last.record[1].histories) = 2
    /\ last.record[1].height # height

\* C12: an instance made from the record exportHistory has just returned,
\* with an image of the same dimensions, has a committed stack equal to the
\* exporter's, stroke for stroke and point for point, and the raster its
\* redraw painted is the raster a redraw of the exporter paints
C12_RoundTrip ==
    (Imported /\ last.from2 # <<>> /\ last.record[1].width = width
              /\ last.record[1].height = height)
        => /\ StacksNow.committed = last.from2[1].committed
           /\ raster = last.painted[1]
           /\ raster = redraw(configs, strokes, histories)

\* the round trip was made with a committed stack of a stroke that redraw
\* paints and a stroke of one point
C12_RoundTripOfTwo ==
    /\ Imported
    /\ last.from2 # <<>>
    /\ last.record[1].height = height
    /\ Len(histories) = 2
    /\ raster # <<>>
    /\ \E k \in DOMAIN histories : ~valid(CommittedPoints(k))

----------------------------------------------------------------------------
(* Properties of the viewport *)

\* C6: when no touch is active and no frame callback is pending, the zoom
\* scale lies between 1 and maxScale
C6_ScaleInRangeAtRest ==
    (fingers = <<>> /\ holders = <<>>)
        => position.scale >= 1000 /\ position.scale <= maxScale

\* the image covers the room on one axis: its near edge is at `edge`
CoversAxis(edge, size, room) == edge <= 0 /\ edge + size >= room

\* the image lies within the room on one axis
WithinAxis(edge, size, room) == edge >= 0 /\ edge + size <= room

\* bounds correction has just run at the end of a gesture
BoundsCorrected == last.op = "touchend" /\ last.target # <<>>

FitsAxis(edge, size, room) ==
    /\ size >= room => CoversAxis(edge, size, room)
    /\ size <= room => WithinAxis(edge, size, room)

C9_Scenario == maxScale = 2000 /\ last.pinch = <<[scale |-> 1000, length |-> 100]>>

\* C9: in the scenario the zoom is the last applied finger distance over
\* 100, hence 2.6 at the distance 260; when the fingers lift at 260, bounds
\* correction targets the zoom 2 and starts an animation from 2.6 to 2 whose
\* duration is the scale delta in thousandths, capped at 200 ms
C9_PinchTo260 ==
    C9_Scenario =>
        /\ last.op \in {"touchstart", "touchmove"}
               => /\ position.scale * 100 = 1000 * lastLength
                  /\ lastLength = 260 => position.scale = 2600
        /\ (last.op = "touchend" /\ lastLength = 260)
               => /\ last.target[1].scale = 2000
                  /\ Len(holders) = 1
                  /\ holders[1].live
                  /\ holders[1].ss = 2600
                  /\ holders[1].es = 2000
                  /\ holders[1].duration = clampNumber(Abs(2000 - 2600), 0, 200)
                  /\ holders[1].duration = 200

\* the fingers have lifted at the distance 260, after an intermediate sample
C9_LiftedAt260 ==
    /\ C9_Scenario
    /\ last.op = "touchend"
    /\ lastLength = 260
    /\ moves = 2

\* C13: a resize of the container, in any state, leaves the pan (0, 0) and
\* the zoom 1, the base scale and the base offsets being those of the
\* contain-fit of the image in the new container, and leaves both stacks as
\* they were
C13_ResizeResetsView ==
    last.op = "resize" =>
        /\ position.x = 0 /\ position.y = 0 /\ position.scale = 1000
        /\ position = loadSizeAndPosition(
                          [oScale |-> 1000, ox |-> 0, oy |-> 0, scale |-> 1000,
                           x |-> 0, y |-> 0, width |-> 0, height |-> 0],
                          root, width, height)
        /\ position.width <= root.offsetWidth
        /\ position.height <= root.offsetHeight
        /\ StacksNow = last.from[1]

\* the container became smaller while the view was zoomed, an animation was
\* in flight and the committed stack held a stroke
C13_ResizedInFlight ==
    /\ last.op = "resize"
    /\ last.was[1].scale # 1000
    /\ last.was[1].oy # position.oy
    /\ animating(holders)
    /\ histories # <<>>

\* C14: every touch end that leaves no active touch, the mode being drawing
\* or transforming, sets the mode to idle and runs bounds correction
C14_EndReturnsToIdle ==
    [][(last'.op = "touchend" /\ fingers # <<>> /\ fingers' = <<>> /\ workMode # 0)
          => /\ workMode' = 0
             /\ last'.target # <<>>]_vars

\* a touch event has just been handled
Touched == last.op \in {"touchstart", "touchmove", "touchend"}

\* C15: a touch start of one touch while an animation is in flight leaves
\* the mode idle and starts no stroke, and no touch event of the gesture it
\* begins adds a point, pushes a stroke or changes the pan or the zoom
C15_GestureIgnored ==
    [][(Touched' /\ last'.ignored)
          => /\ workMode' = 0
             /\ position' = position
             /\ holders' = holders
             /\ strokes' = strokes
             /\ brushHistory' = brushHistory
             /\ raster' = raster
             /\ histories' = histories
             /\ redoHistories' = redoHistories]_vars

\* two fingers of an ignored gesture have moved after the animation ended
C15_IgnoredAfterAnimation ==
    /\ last.ignored
    /\ last.op = "touchmove"
    /\ Len(fingers) = 2
    /\ holders = <<>>
    /\ position.scale # 1000

\* C16: a touch start of 2 or more touches while a stroke is in progress
\* discards the stroke, redraws the raster from the committed stack, makes
\* the mode transforming and seeds the pinch baseline from the touches, both
\* stacks staying as they were; and no touch end in transforming mode
\* changes a stack
C16_SecondFingerAbandonsStroke ==
    [][/\ (last'.op = "touchstart" /\ Len(fingers') >= 2 /\ workMode = 1
              /\ brushHistory[brush] # NoStroke)
            => /\ brushHistory'[brush] = NoStroke
               /\ Len(strokes') = Len(strokes) - 1
               /\ raster' = redraw(configs, strokes, histories)
               /\ workMode' = 2
               /\ lastLength' = computeLength(fingers')
               /\ lastFocus' = computeFocus(fingers')
               /\ lastScaleFocus' = computeFocus(fingers')
               /\ StacksNow' = StacksNow
       /\ (last'.op = "touchend" /\ workMode = 2)
            => /\ StacksNow' = StacksNow
               /\ strokes' = strokes]_vars

\* a second finger has come down on a stroke in progress: the raster was
\* redrawn from the committed stroke, and the redo stack held a stroke
C16_StrokeAbandoned ==
    /\ last.op = "touchstart"
    /\ last.redraw
    /\ workMode = 2
    /\ histories # <<>>
    /\ redoHistories # <<>>
    /\ Len(raster) = 2

\* a stroke is in progress: drawDown has made it, and neither a touch end
\* nor a second finger has taken it from the brush
StrokeInProgress == fingers # <<>> /\ brushHistory[brush] # NoStroke

\* C17: while a stroke is in progress no animation is in flight, and no
\* step changes the pan or the zoom
C17_BrushOrAnimation ==
    [][(StrokeInProgress /\ StrokeInProgress')
          => /\ ~animating(holders')
             /\ position'.x = position.x
             /\ position'.y = position.y
             /\ position'.scale = position.scale]_vars

\* C18: while an animation is in flight no touch event changes the pan or
\* the zoom, and none makes the mode transforming
C18_NoGestureWhileAnimating ==
    [][(Touched' /\ animating(holders))
          => /\ position'.x = position.x
             /\ position'.y = position.y
             /\ position'.scale = position.scale
             /\ (workMode # 2 => workMode' # 2)]_vars

\* C19: after a touch start that begins a gesture while an animation is in
\* flight, no animation is in flight
C19_StartResetsAnimation ==
    [][(last'.op = "touchstart" /\ fingers = <<>> /\ animating(holders))
          => ~animating(holders')]_vars

\* the animation bounds correction asks for at the position p, the
\* controller being free
Requested(p, t) == animateTo(p, <<>>, t.x, t.y, t.scale, 200, TRUE).holders

\* C20: an execute while an animation is in flight does nothing: when
\* bounds correction at a touch end asks for an animation while one is in
\* flight, the pending frames and their holders stay as they were, start
\* values, target, duration and callbacks included, and the position stays
C20_ExecuteWhileAnimating ==
    [][(/\ last'.op = "touchend"
        /\ last'.target # <<>>
        /\ animating(holders)
        /\ Requested(position, last'.target[1]) # <<>>)
          => /\ holders' = holders
             /\ position' = position]_vars

\* the fingers of a pinch have lifted while an animation of fitCenter was
\* in flight, the view being away from the target of bounds correction
C20_CorrectionDropped ==
    /\ last.op = "touchend"
    /\ last.target # <<>>
    /\ Requested(position, last.target[1]) # <<>>
    /\ Len(holders) = 1
    /\ holders[1].live
    /\ ~holders[1].lost
    /\ holders[1].es # last.target[1].scale

----------------------------------------------------------------------------
(* Properties of the AnimationController *)

\* the one frame callback pending is that of an animation reset() cancelled
CancelledPending == Len(holders) = 1 /\ holders[1].canceled

\* C21: the frame of an animation that reset() cancelled calls neither the
\* frame callback nor the completed callback; it calls the cancel callback
\* if there is one, which puts the view at the target, and nothing if there
\* is none; and it requests no further frame, whatever time has passed
C21_CancelledFrameWritesNothing ==
    [][(last'.op = "frame" /\ CancelledPending)
          => /\ holders' = <<>>
             /\ holders[1].lost => position' = position
             /\ ~holders[1].lost
                    => position' = [position EXCEPT !.x = holders[1].ex,
                                                     !.y = holders[1].ey,
                                                     !.scale = holders[1].es]]_vars

\* C22: at most one frame callback is pending
C22_OneFramePending == Len(holders) <= 1

\* C23: a touch end in transforming mode that leaves a touch changes
\* neither the pan nor the zoom, starts no animation and runs no bounds
\* correction; it takes the centroid, and with 2 touches or more the finger
\* distance, from the touches that stay, so that a touch move with these
\* touches where they are would leave the view as it is
C23_PartialReleaseKeepsView ==
    [][(last'.op = "touchend" /\ workMode = 2 /\ fingers' # <<>>)
          => /\ position' = position
             /\ holders' = holders
             /\ last'.target = <<>>
             /\ lastFocus' = computeFocus(fingers')
             /\ Len(fingers') > 1 => lastLength' = computeLength(fingers')
             /\ ~Transformed(fingers)'.updated
             /\ Transformed(fingers)'.position = position]_vars

\* the third finger of a pinch that had zoomed the view has lifted, and the
\* centroid of the two that stay is not that of the three
C23_ThirdFingerLifted ==
    /\ last.op = "touchend"
    /\ workMode = 2
    /\ Len(fingers) = 2
    /\ position.scale # 1000
    /\ lastFocus = Pt(500, 500)

----------------------------------------------------------------------------
(* Properties of the strokes *)

\* what the stroke the current brush holds holds
StrokeNow == StrokeValue(configs, strokes, brushHistory[brush])

\* C24: a stroke starts with the configs the brush has at drawDown and keeps
\* them whatever the brush is set to afterwards; an accepted point goes to
\* its end; and the stroke a touch end pushes for n >= 3 accepted points
\* holds these configs and n + 1 points, the accepted ones in their order
\* and the last of them once more
C24_PushedStrokeIsWhatWasDrawn ==
    [][/\ (last'.op = "touchstart" /\ brushHistory'[brush] # NoStroke)
            => /\ StrokeNow'.configs = configs[brush]
               /\ Len(StrokeNow'.points) = 1
       /\ (last'.op \notin {"touchstart", "touchend"}
              /\ brushHistory[brush] # NoStroke /\ brushHistory'[brush] # NoStroke)
            => /\ StrokeNow'.configs = StrokeNow.configs
               /\ \/ StrokeNow'.points = StrokeNow.points
                  \/ /\ last'.op = "touchmove"
                     /\ Front(StrokeNow'.points) = StrokeNow.points
       /\ (last'.op = "touchend" /\ Len(last'.drawn) >= 3)
            => /\ last'.drawn = StrokeNow.points
               /\ Len(histories') = Len(histories) + 1
               /\ StacksNow'.committed[Len(histories')] =
                      [configs |-> StrokeNow.configs,
                       points |-> Append(last'.drawn, last'.drawn[Len(last'.drawn)])]]_vars

\* a stroke of 3 accepted points was pushed after the size of the brush was
\* set during the stroke
C24_SizeSetDuringStroke ==
    /\ last.op = "touchend"
    /\ last.pushed
    /\ Len(last.drawn) = 3
    /\ StacksNow.committed[Len(histories)].configs.size # configs[brush].size

\* C25: whenever no brush holds a stroke in progress, the raster is what a
\* redraw of the committed stack paints
C25_RasterIsRedraw ==
    (\A b \in BrushNames : brushHistory[b] = NoStroke)
        => raster = redraw(configs, strokes, histories)

\* C26: a touch move or a touch end handled in drawing mode finds the
\* current brush holding the stroke in progress, and no drawMove reads a
\* stroke that is missing
C26_BrushHoldsStroke ==
    [][(last'.op \in {"touchmove", "touchend"} /\ fingers # <<>> /\ workMode = 1)
          => /\ brushHistory[brush] # NoStroke
             /\ ~last'.threw]_vars

\* the record the application holds is one it has made an instance from
RecordImported == exported # <<>> /\ exported[1].shared

\* C27: a record an instance was made from holds what it held before the
\* construction, whatever the instance has done since
C27_ImportedRecordUntouched ==
    RecordImported => RecordValue(configs, strokes, exported[1]) = exportedWas[1]

\* the view is centred: the pan is (0, 0) and the zoom is 1
Centred == position.x = 0 /\ position.y = 0 /\ position.scale = 1000

\* C28: when nothing but animation frames has run since a resize, and no
\* frame callback is pending any more, the view is centred
C28_CentredAfterResize ==
    (last.since = "resize" /\ holders = <<>>) => Centred

\* C29: when nothing but animation frames has run since a call of
\* fitCenter, and no frame callback is pending any more, the view is centred
C29_CentredAfterFitCenter ==
    (last.since = "fitCenter" /\ holders = <<>>) => Centred

\* the animation the controller holds
Live == holders[CHOOSE i \in DOMAIN holders : holders[i].live]

\* C30: an animation in flight ends; it ends in a frame, which leaves the
\* view at the animation's target, or in a call of fitCenter, which cancels
\* it; and only an execute, in fitCenter or in the bounds correction of a
\* touch end, starts one
C30_AnimationEnds ==
    /\ animating(holders) ~> ~animating(holders)
    /\ [][/\ (animating(holders) /\ ~animating(holders'))
               => \/ last'.op = "fitCenter"
                  \/ /\ last'.op = "frame"
                     /\ position'.x = Live.ex
                     /\ position'.y = Live.ey
                     /\ position'.scale = Live.es
          /\ (~animating(holders) /\ animating(holders'))
               => last'.op \in {"fitCenter", "touchend"}]_vars

\* the last frame of a snap-back from the zoom 2.6 has left the view at its
\* target, the zoom 2
C30_SnapBackDone ==
    /\ last.op = "frame"
    /\ holders = <<>>
    /\ position.scale = 2000
    /\ position.x = -500

====
